---- MODULE Spec2Model ----
(***************************************************************************)
(* The S3 -> Redshift loader (src/s3_to_redshift_lambda/lambda_function.py) *)
(* as a state machine.  One invocation of lambda_handler is a sequence of   *)
(* steps, one per call that leaves the process (object store, warehouse);   *)
(* the Python between two such calls belongs to the step that follows it.   *)
(*                                                                         *)
(* Text is a sequence of tokens: the key sales/append/orders/file.csv is    *)
(* <<"sales", "/", "append", "/", "orders", "/", "file.csv">>.  split,      *)
(* splitlines, strip, lower and join work on these sequences as the Python  *)
(* methods work on characters.                                              *)
(***************************************************************************)
EXTENDS Integers, Sequences, FiniteSets, TLC

\* Number of invocations a behaviour starts.
MaxInvocations == 2

-----------------------------------------------------------------------------
(* Text helpers: str.split, str.splitlines, str.strip, str.lower, str.join  *)

RECURSIVE Split(_, _)
Split(s, sep) ==
    IF \A i \in 1..Len(s) : s[i] # sep
    THEN <<s>>
    ELSE LET i == CHOOSE k \in 1..Len(s) :
                      s[k] = sep /\ \A j \in 1..(k - 1) : s[j] # sep
         IN  <<SubSeq(s, 1, i - 1)>> \o Split(SubSeq(s, i + 1, Len(s)), sep)

\* str.splitlines: like split on the line break, without a trailing empty line
SplitLines(s) ==
    LET parts == Split(s, "\n")
    IN  IF parts[Len(parts)] = <<>> THEN SubSeq(parts, 1, Len(parts) - 1)
        ELSE parts

RECURSIVE Join(_, _)
Join(parts, sep) ==
    IF Len(parts) = 0 THEN <<>>
    ELSE IF Len(parts) = 1 THEN parts[1]
    ELSE parts[1] \o <<sep>> \o Join(Tail(parts), sep)

RECURSIVE LStrip(_)
LStrip(s) == IF Len(s) > 0 /\ s[1] = " " THEN LStrip(Tail(s)) ELSE s

RECURSIVE RStrip(_)
RStrip(s) ==
    IF Len(s) > 0 /\ s[Len(s)] = " " THEN RStrip(SubSeq(s, 1, Len(s) - 1)) ELSE s

Strip(s) == RStrip(LStrip(s))

LowerToken(t) ==
    CASE t = "APPEND"   -> "append"
      [] t = "Truncate" -> "truncate"
      [] t = "Schema"   -> "schema"
      [] t = "MERGE"    -> "merge"
      [] OTHER          -> t

Lower(s) == [i \in 1..Len(s) |-> LowerToken(s[i])]

-----------------------------------------------------------------------------
(* Inputs: the object keys of the trigger events and the objects' contents  *)

Keys ==
    { <<"bad", "/", "key">>,
      <<"sales", "/", "append", "/", "orders">>,
      <<"sales", "/", "schema", "/", "orders", "/", "file.csv">>,
      <<"sales", "/", "append", "/", "orders", "/", "file.csv">>,
      <<"sales", "/", "Truncate", "/", "orders", "/", "file.csv">>,
      <<"sales", "/", "merge", "/", "orders", "/", "file.csv">>,
      <<"sales", "/", "schema", "/", "orders", "/", "2024", "/", "file.csv">>,
      <<"sales", "/", "MERGE", "/", "my", ".", "orders", "/", "file.csv">> }

FileIds == {"two_rows", "padded", "other_cols", "empty", "blank_header"}

\* What get_object returns for each file.
Body(f) ==
    CASE f = "two_rows"     -> <<"id", ",", "amount", "\n", "1", ",", "5", "\n", "2", ",", "7", "\n">>
      [] f = "padded"       -> <<"id", ",", " ", "amount", " ", "\n", "3", ",", "9">>
      [] f = "other_cols"   -> <<"id", ",", "total", "\n", "1", ",", "5", "\n">>
      [] f = "empty"        -> <<>>
      [] f = "blank_header" -> <<"\n", "1", ",", "5", "\n">>

-----------------------------------------------------------------------------
(* Pure functions of the loader                                            *)

get_csv_columns(body) ==
    LET csv_lines == SplitLines(body)
    IN  IF csv_lines = <<>> THEN <<>>
        ELSE LET cells == Split(csv_lines[1], ",")
             IN  [i \in 1..Len(cells) |-> Strip(cells[i])]

\* Mutant: the loop over the columns misses the first one
build_create_table_query_SkipsFirst(full_table_name, columns) ==
    [ op       |-> "CREATE",
      table    |-> full_table_name,
      cols_def |-> [i \in 1..(Len(columns) - 1) |->
                       [quoted |-> columns[i + 1], type |-> "VARCHAR"]] ]

build_create_table_query(full_table_name, columns) ==
    [ op       |-> "CREATE",
      table    |-> full_table_name,
      cols_def |-> [i \in 1..Len(columns) |->
                       [quoted |-> columns[i], type |-> "VARCHAR"]] ]

make_copy_query(full_table_name, from_path, iam_arn) ==
    [ op           |-> "COPY",
      table        |-> full_table_name,
      from         |-> from_path,
      iam_role     |-> iam_arn,
      ignoreheader |-> 1 ]

-----------------------------------------------------------------------------
(* The warehouse (Redshift): one catalog entry per table of schema public.  *)
(* rows lists the files whose data rows the table holds, one entry per      *)
(* COPY that loaded them.                                                   *)

TableNames == { <<"orders">> }

NoTable == [exists |-> FALSE, columns |-> <<>>, rows |-> <<>>]

\* txn[p] is <<>> while p has written nothing since its last commit, else <<view>>
NoTxn == <<>>

\* Data rows a COPY ... IGNOREHEADER 1 loads from a file
DataRows(f) ==
    LET n == Len(SplitLines(Body(f))) IN IF n > 0 THEN n - 1 ELSE 0

RECURSIVE RowCount(_)
RowCount(rows) ==
    IF rows = <<>> THEN 0 ELSE DataRows(Head(rows)) + RowCount(Tail(rows))

\* schema and table of a qualified name, as the warehouse resolves it
TableOf(full_table_name) == Split(full_table_name, ".")[2]

\* A column list CREATE TABLE accepts: no empty and no repeated identifier
ValidColumns(cols) ==
    /\ Len(cols) > 0
    /\ \A i \in 1..Len(cols) : cols[i] # <<>>
    /\ \A i, j \in 1..Len(cols) : i # j => cols[i] # cols[j]

VARIABLES
    warehouse,   \* committed catalog: table name -> [exists, columns, rows]
    txn,         \* per invocation: the uncommitted view of its open transaction
    inv,         \* per invocation: position and local variables of lambda_handler
    started,     \* invocations started so far
    last_load,   \* outcome of the latest committed load
    clock,       \* the time datetime.utcnow() reads
    audit_store  \* items of the DynamoDB monitoring table

vars == <<warehouse, txn, inv, started, last_load, clock, audit_store>>

\* Invocations that may be in flight at once, and the one that runs when
\* invocations follow each other
Procs == {"p1", "p2"}
SeqProcs == {"p1"}

NoLoad ==
    [load_mode |-> "none", file |-> "none", ops |-> <<>>, columns |-> <<>>, rows |-> <<>>]

IdleInv ==
    [ pc               |-> "idle",
      s3_key           |-> <<>>,
      file             |-> "none",
      from_path        |-> <<>>,
      database_name    |-> <<>>,
      action           |-> <<>>,
      table_name       |-> <<>>,
      file_name        |-> <<>>,
      landed_timestamp |-> <<>>,
      redriven         |-> FALSE,
      follows_load     |-> FALSE,
      full_table_name  |-> <<>>,
      file_size        |-> 0,
      csv_columns      |-> <<>>,
      conn             |-> "none",
      table_exists     |-> FALSE,
      existing_columns |-> <<>>,
      load_mode        |-> "none",
      sql              |-> <<>>,
      io               |-> <<>>,
      err              |-> "none",
      audit            |-> "none",
      before           |-> <<>>,
      prior_load       |-> NoLoad,
      output           |-> <<>> ]

\* Tables earlier loads may have left behind
InitTables ==
    { NoTable,
      [exists |-> TRUE, columns |-> << <<"id">>, <<"amount">> >>, rows |-> <<"two_rows">>],
      [exists |-> TRUE, columns |-> << <<"id">>, <<"total">> >>, rows |-> <<>>] }

Init ==
    /\ warehouse \in [TableNames -> InitTables]
    /\ txn = [p \in Procs |-> NoTxn]
    /\ inv = [p \in Procs |-> IdleInv]
    /\ started = 0
    /\ last_load = NoLoad
    /\ clock = 0
    /\ audit_store = {}

\* What the statements of invocation p read: its own uncommitted changes, if any
View(p) == IF txn[p] = NoTxn THEN warehouse ELSE txn[p][1]

Set(p, fields) == [inv EXCEPT ![p] = fields @@ inv[p]]

Raise(p, kind, fields) ==
    inv' = Set(p, [pc |-> "failed", err |-> kind] @@ fields)

-----------------------------------------------------------------------------
(* Statements as the warehouse executes them on a view of the catalog       *)

ExecDrop(view, full_table_name) ==
    [view EXCEPT ![TableOf(full_table_name)] = NoTable]

CreateAccepted(view, q) ==
    /\ ~view[TableOf(q.table)].exists
    /\ ValidColumns([i \in 1..Len(q.cols_def) |-> q.cols_def[i].quoted])

ExecCreate(view, q) ==
    [view EXCEPT ![TableOf(q.table)] =
        [ exists  |-> TRUE,
          columns |-> [i \in 1..Len(q.cols_def) |-> q.cols_def[i].quoted],
          rows    |-> <<>> ]]

ExecTruncate(view, full_table_name) ==
    [view EXCEPT ![TableOf(full_table_name)].rows = <<>>]

ExecCopy(view, q, f) ==
    [view EXCEPT ![TableOf(q.table)].rows = Append(@, f)]

-----------------------------------------------------------------------------
(* lambda_handler, step by step                                            *)

\* Mutant: schema creates the table without dropping it first
Dispatch_SchemaSkipsDrop(action, table_exists) ==
    IF action = <<"schema">> THEN "create"
    ELSE IF action = <<"append">>
         THEN IF ~table_exists THEN "create" ELSE "getcols"
    ELSE IF action = <<"truncate">>
         THEN IF ~table_exists THEN "create" ELSE "getcols"
    ELSE "raise"

\* Mutant: append and truncate load into an existing table without the column check
Dispatch_SkipsCheck(action, table_exists) ==
    IF action = <<"schema">> THEN "drop"
    ELSE IF action = <<"append">>
         THEN IF ~table_exists THEN "create" ELSE "copy"
    ELSE IF action = <<"truncate">>
         THEN IF ~table_exists THEN "create" ELSE "truncate"
    ELSE "raise"

\* Mutant: schema keeps an existing table and loads into it
Dispatch_SchemaKeepsTable(action, table_exists) ==
    IF action = <<"schema">>
    THEN IF ~table_exists THEN "create" ELSE "copy"
    ELSE IF action = <<"append">>
         THEN IF ~table_exists THEN "create" ELSE "getcols"
    ELSE IF action = <<"truncate">>
         THEN IF ~table_exists THEN "create" ELSE "getcols"
    ELSE "raise"

\* Mutant: any other action is handled as an append
Dispatch_UnknownAppends(action, table_exists) ==
    IF action = <<"schema">> THEN "drop"
    ELSE IF action = <<"truncate">>
         THEN IF ~table_exists THEN "create" ELSE "getcols"
    ELSE IF ~table_exists THEN "create" ELSE "getcols"

\* The branch taken once table_exists is known (the if / elif chain)
Dispatch(action, table_exists) ==
    IF action = <<"schema">> THEN "drop"
    ELSE IF action = <<"append">>
         THEN IF ~table_exists THEN "create" ELSE "getcols"
    ELSE IF action = <<"truncate">>
         THEN IF ~table_exists THEN "create" ELSE "getcols"
    ELSE "raise"

\* Mutant: the append branch truncates after creating, as the truncate branch does
AfterCreate_AppendTruncates(action) == IF action = <<"schema">> THEN "copy" ELSE "truncate"

\* The statement after CREATE TABLE in each branch
AfterCreate(action) == IF action = <<"truncate">> THEN "truncate" ELSE "copy"

\* Mutant: the truncate branch loads without truncating
AfterCheck_NeverTruncates(action) == "copy"

\* Mutant: the append branch truncates before loading
AfterCheck_AlwaysTruncates(action) == "truncate"

\* The statement after the column check in each branch
AfterCheck(action) == IF action = <<"truncate">> THEN "truncate" ELSE "copy"

\* Mutant: the depth check is off by one
KeyTooShort_Three(s3_key_split) == Len(s3_key_split) < 3

\* The key has too few segments
KeyTooShort(s3_key_split) == Len(s3_key_split) < 4

\* Mutant: the columns are compared as sets of names
ColumnsDiffer_IgnoresOrder(existing_columns, csv_columns) ==
    \/ Len(existing_columns) # Len(csv_columns)
    \/ { existing_columns[i] : i \in 1..Len(existing_columns) }
          # { csv_columns[i] : i \in 1..Len(csv_columns) }

\* Mutant: only the number of columns is compared
ColumnsDiffer_LengthOnly(existing_columns, csv_columns) ==
    Len(existing_columns) # Len(csv_columns)

\* The table's columns are not the file's
ColumnsDiffer(existing_columns, csv_columns) == existing_columns # csv_columns

\* Mutant: only the first segment after the table is taken as the file
FileNameOf_OneSegment(s3_key_split) == s3_key_split[4]

\* The file part of the key
FileNameOf(s3_key_split) == Join(SubSeq(s3_key_split, 4, Len(s3_key_split)), "/")

\* Mutant: the empty-file check is missing
NoColumns_Never(csv_columns) == FALSE

\* The file gave no header columns
NoColumns(csv_columns) == csv_columns = <<>>

\* datetime.utcnow().isoformat(): the text of a time
isoformat(t) == <<"iso", t>>

\* The DROP, CREATE, TRUNCATE and COPY statements among those issued
Ops(sql) == SelectSeq(sql, LAMBDA x : x \in {"DROP", "CREATE", "TRUNCATE", "COPY"})

\* The event arrives; the key is split and checked.  A new invocation works
\* on a connection of its own: what an earlier, failed invocation left
\* uncommitted on its connection is never committed.
\* The same, for events drawn from the given keys and files.  redriven: the
\* event is the one of the invocation that failed just before; follows_load:
\* the invocation just before completed its load.
Start(p, keys, files) ==
    /\ started < MaxInvocations
    /\ started' = started + 1
    /\ clock' = clock + 1
    /\ txn' = [txn EXCEPT ![p] = NoTxn]
    /\ \E s3_key \in keys, f \in files :
          LET s3_key_split == Split(s3_key, "/")
              fresh == [ s3_key           |-> s3_key,
                         file             |-> f,
                         landed_timestamp |-> isoformat(clock),
                         redriven         |-> /\ inv[p].pc = "failed"
                                              /\ inv[p].s3_key = s3_key
                                              /\ inv[p].file = f,
                         follows_load     |-> inv[p].pc = "done",
                         from_path        |-> <<"s3://", "bucket", "/">> \o s3_key,
                         before           |-> warehouse ] @@ IdleInv
          IN  IF KeyTooShort(s3_key_split)
              THEN inv' = [inv EXCEPT ![p] =
                              [pc |-> "failed", err |-> "MalformedKey"] @@ fresh]
              ELSE inv' = [inv EXCEPT ![p] =
                              [ pc              |-> "head",
                                database_name   |-> s3_key_split[1],
                                action          |-> Lower(s3_key_split[2]),
                                table_name      |-> s3_key_split[3],
                                file_name       |-> FileNameOf(s3_key_split),
                                full_table_name |-> <<"public", ".">> \o s3_key_split[3]
                              ] @@ fresh]
    /\ UNCHANGED <<warehouse, last_load, audit_store>>

ParseKey(p) ==
    /\ inv[p].pc \in {"idle", "done", "failed"}
    /\ Start(p, Keys, FileIds)

HeadObject(p) ==
    /\ inv[p].pc = "head"
    /\ \E ok \in BOOLEAN :
          IF ok
          THEN inv' = Set(p, [ pc        |-> "getcsv",
                               io        |-> Append(inv[p].io, "head_object"),
                               file_size |-> Len(Body(inv[p].file)) ])
          ELSE Raise(p, "HeadObject", [io |-> Append(inv[p].io, "head_object")])
    /\ UNCHANGED <<warehouse, txn, started, last_load, clock, audit_store>>

GetCsvColumns(p) ==
    /\ inv[p].pc = "getcsv"
    /\ \E ok \in BOOLEAN :
          LET io2 == Append(inv[p].io, "get_object")
              csv_columns == get_csv_columns(Body(inv[p].file))
          IN  IF ~ok THEN Raise(p, "GetObject", [io |-> io2])
              ELSE IF NoColumns(csv_columns)
                   THEN Raise(p, "EmptyCsv", [io |-> io2])
              ELSE inv' = Set(p, [ pc          |-> "connect",
                                   io          |-> io2,
                                   csv_columns |-> csv_columns ])
    /\ UNCHANGED <<warehouse, txn, started, last_load, clock, audit_store>>

Connect(p) ==
    /\ inv[p].pc = "connect"
    /\ \E ok \in BOOLEAN :
          IF ok THEN inv' = Set(p, [pc |-> "probe", conn |-> "open"])
          ELSE Raise(p, "Connect", <<>>)
    /\ UNCHANGED <<warehouse, txn, started, last_load, clock, audit_store>>

\* information_schema.tables has a row for the table
check_table_exists(view, schema_name, table_only) ==
    /\ schema_name = <<"public">>
    /\ table_only \in DOMAIN view
    /\ view[table_only].exists

\* information_schema.columns of the table, by ordinal position
get_table_columns(view, schema_name, table_only) ==
    IF check_table_exists(view, schema_name, table_only)
    THEN view[table_only].columns
    ELSE <<>>

LoadModeOf(action) ==
    IF action = <<"schema">> THEN "schema"
    ELSE IF action = <<"append">> THEN "append"
    ELSE "truncate"

CheckTableExists(p) ==
    /\ inv[p].pc = "probe"
    /\ LET parts == Split(inv[p].full_table_name, ".")
       IN  IF Len(parts) # 2
           THEN Raise(p, "Unpack", <<>>)
           ELSE \E ok \in BOOLEAN :
                  LET sql2 == Append(inv[p].sql, "SELECT_TABLES")
                      table_exists == check_table_exists(View(p), parts[1], parts[2])
                      branch == Dispatch(inv[p].action, table_exists)
                  IN  IF ~ok THEN Raise(p, "Sql", [sql |-> sql2])
                      ELSE IF branch = "raise"
                           THEN Raise(p, "UnknownAction",
                                      [sql |-> sql2, table_exists |-> table_exists])
                      ELSE inv' = Set(p, [ pc           |-> branch,
                                           sql          |-> sql2,
                                           table_exists |-> table_exists ])
    /\ UNCHANGED <<warehouse, txn, started, last_load, clock, audit_store>>

\* A statement that writes a table waits while another running invocation
\* holds uncommitted changes; a failed invocation's changes are rolled back
CanWrite(p) ==
    \A q \in Procs \ {p} : txn[q] = NoTxn \/ inv[q].pc = "failed"

DropTable(p) ==
    /\ inv[p].pc = "drop"
    /\ CanWrite(p)
    /\ \E ok \in BOOLEAN :
          LET sql2 == Append(inv[p].sql, "DROP")
          IN  IF ok
              THEN /\ txn' = [txn EXCEPT ![p] = <<ExecDrop(View(p), inv[p].full_table_name)>>]
                   /\ inv' = Set(p, [pc |-> "create", sql |-> sql2])
              ELSE /\ Raise(p, "Sql", [sql |-> sql2])
                   /\ UNCHANGED txn
    /\ UNCHANGED <<warehouse, started, last_load, clock, audit_store>>

CreateTable(p) ==
    /\ inv[p].pc = "create"
    /\ CanWrite(p)
    /\ \E ok \in BOOLEAN :
          LET sql2 == Append(inv[p].sql, "CREATE")
              q == build_create_table_query(inv[p].full_table_name, inv[p].csv_columns)
          IN  IF ok /\ CreateAccepted(View(p), q)
              THEN /\ txn' = [txn EXCEPT ![p] = <<ExecCreate(View(p), q)>>]
                   /\ inv' = Set(p, [pc |-> AfterCreate(inv[p].action), sql |-> sql2])
              ELSE /\ Raise(p, "Sql", [sql |-> sql2])
                   /\ UNCHANGED txn
    /\ UNCHANGED <<warehouse, started, last_load, clock, audit_store>>

GetTableColumns(p) ==
    /\ inv[p].pc = "getcols"
    /\ \E ok \in BOOLEAN :
          LET sql2 == Append(inv[p].sql, "SELECT_COLUMNS")
              parts == Split(inv[p].full_table_name, ".")
              existing_columns == get_table_columns(View(p), parts[1], parts[2])
          IN  IF ~ok THEN Raise(p, "Sql", [sql |-> sql2])
              ELSE IF ColumnsDiffer(existing_columns, inv[p].csv_columns)
                   THEN Raise(p, "SchemaMismatch",
                              [sql |-> sql2, existing_columns |-> existing_columns])
              ELSE inv' = Set(p, [ pc               |-> AfterCheck(inv[p].action),
                                   sql              |-> sql2,
                                   existing_columns |-> existing_columns ])
    /\ UNCHANGED <<warehouse, txn, started, last_load, clock, audit_store>>

\* Redshift's TRUNCATE commits the transaction it runs in
TruncateTable(p) ==
    /\ inv[p].pc = "truncate"
    /\ CanWrite(p)
    /\ \E ok \in BOOLEAN :
          LET sql2 == Append(inv[p].sql, "TRUNCATE")
          IN  IF ok /\ View(p)[TableOf(inv[p].full_table_name)].exists
              THEN /\ warehouse' = ExecTruncate(View(p), inv[p].full_table_name)
                   /\ txn' = [txn EXCEPT ![p] = NoTxn]
                   /\ inv' = Set(p, [pc |-> "copy", sql |-> sql2])
              ELSE /\ Raise(p, "Sql", [sql |-> sql2])
                   /\ UNCHANGED <<warehouse, txn>>
    /\ UNCHANGED <<started, last_load, clock, audit_store>>

CopyData(p) ==
    /\ inv[p].pc = "copy"
    /\ CanWrite(p)
    /\ \E ok \in BOOLEAN :
          LET sql2 == Append(inv[p].sql, "COPY")
              q == make_copy_query(inv[p].full_table_name, inv[p].from_path, "iam_arn")
          IN  IF ok /\ View(p)[TableOf(q.table)].exists
              THEN /\ txn' = [txn EXCEPT ![p] = <<ExecCopy(View(p), q, inv[p].file)>>]
                   /\ inv' = Set(p, [ pc        |-> "commit",
                                      sql       |-> sql2,
                                      load_mode |-> LoadModeOf(inv[p].action) ])
              ELSE /\ Raise(p, "Sql", [sql |-> sql2])
                   /\ UNCHANGED txn
    /\ UNCHANGED <<warehouse, started, last_load, clock, audit_store>>

\* connection.commit(), close, and the returned record
CommitAndReturn(p) ==
    /\ inv[p].pc = "commit"
    /\ \E ok \in BOOLEAN :
          LET sql2 == Append(inv[p].sql, "COMMIT")
              t == View(p)[TableOf(inv[p].full_table_name)]
          IN  IF ok
              THEN /\ warehouse' = View(p)
                   /\ txn' = [txn EXCEPT ![p] = NoTxn]
                   /\ last_load' = [ load_mode |-> inv[p].load_mode,
                                     file      |-> inv[p].file,
                                     ops       |-> Ops(inv[p].sql),
                                     columns   |-> t.columns,
                                     rows      |-> t.rows ]
                   /\ inv' = Set(p, [ pc         |-> "done",
                                      sql        |-> sql2,
                                      conn       |-> "closed",
                                      prior_load |-> last_load,
                                      output     |->
                                        [ s3_key                |-> inv[p].s3_key,
                                          landed_timestamp      |-> inv[p].landed_timestamp,
                                          loaded_timestamp      |-> isoformat(clock),
                                          file_size             |-> inv[p].file_size,
                                          table_name            |-> inv[p].full_table_name,
                                          redshift_table_exists |-> TRUE,
                                          load_mode             |-> inv[p].load_mode ] ])
              ELSE /\ Raise(p, "Commit", [sql |-> sql2])
                   /\ UNCHANGED <<warehouse, txn, last_load>>
    /\ clock' = IF inv'[p].pc = "done" THEN clock + 1 ELSE clock
    /\ UNCHANGED <<started, audit_store>>

\* The audit writer's handler, given the record a completed load returned
AuditItem(event) ==
    LET s3_key_split  == Split(event.s3_key, "/")
        database_name == s3_key_split[1]
        schema_name   == s3_key_split[2]
        table_name    == s3_key_split[3]
    IN  [ table_prefix             |-> database_name \o <<".">> \o schema_name
                                          \o <<".">> \o table_name,
          file_key                 |-> event.s3_key,
          landed_timestamp         |-> event.landed_timestamp,
          loaded_timestamp         |-> event.loaded_timestamp,
          file_size                |-> event.file_size,
          table_name               |-> event.table_name,
          schema_version_timestamp |-> "unknown",
          redshift_table_exists    |-> event.redshift_table_exists,
          load_mode                |-> event.load_mode,
          status                   |-> "SUCCESS",
          table_status             |-> "exists/match" ]

LogToDynamoDB(p) ==
    /\ inv[p].pc = "done"
    /\ inv[p].audit = "none"
    /\ \E ok \in BOOLEAN :
          IF ok
          THEN /\ audit_store' = audit_store \cup {AuditItem(inv[p].output)}
               /\ inv' = Set(p, [audit |-> "written"])
          ELSE /\ inv' = Set(p, [audit |-> "failed"])
               /\ UNCHANGED audit_store
    /\ UNCHANGED <<warehouse, txn, started, last_load, clock>>

Next ==
    \E p \in SeqProcs :
        \/ ParseKey(p)
        \/ HeadObject(p)
        \/ GetCsvColumns(p)
        \/ Connect(p)
        \/ CheckTableExists(p)
        \/ DropTable(p)
        \/ CreateTable(p)
        \/ GetTableColumns(p)
        \/ TruncateTable(p)
        \/ CopyData(p)
        \/ CommitAndReturn(p)
        \/ LogToDynamoDB(p)

Spec == Init /\ [][Next]_vars

-----------------------------------------------------------------------------
(* Properties                                                              *)

Terminal(p) == inv[p].pc \in {"done", "failed"}

Running(p) == inv[p].pc # "idle"

\* The header columns of the file of invocation p
HeaderOf(p) == get_csv_columns(Body(inv[p].file))

\* The committed table that invocation p targets, now and when p started
TargetNow(p) == warehouse[inv[p].table_name]
TargetBefore(p) == inv[p].before[inv[p].table_name]

HasTarget(p) == Running(p) /\ inv[p].table_name \in TableNames

\* A call out of the process failed: object store, connection or a statement
ExternalFailure(p) == inv[p].err \in {"HeadObject", "GetObject", "Connect", "Sql", "Commit"}

Issued(p, stmt) == \E i \in 1..Len(inv[p].sql) : inv[p].sql[i] = stmt

\* C1: an append or truncate invocation whose target table exists with columns
\* other than the file's header columns never succeeds, and the only SQL it
\* runs are the two catalog queries: no DROP, CREATE, TRUNCATE, COPY, no commit.
C1_MismatchRunsOnlyProbe ==
    \A p \in Procs :
        ( /\ HasTarget(p)
          /\ inv[p].action \in { <<"append">>, <<"truncate">> }
          /\ TargetBefore(p).exists
          /\ TargetBefore(p).columns # HeaderOf(p) )
        => /\ inv[p].pc # "done"
           /\ Ops(inv[p].sql) = <<>>
           /\ ~Issued(p, "COMMIT")
           /\ \A i \in 1..Len(inv[p].sql) :
                 inv[p].sql[i] \in {"SELECT_TABLES", "SELECT_COLUMNS"}
           /\ warehouse = inv[p].before

C1_Witness ==
    \E p \in Procs :
        /\ inv[p].pc = "failed"
        /\ inv[p].err = "SchemaMismatch"
        /\ inv[p].action = <<"append">>
        /\ inv[p].existing_columns = << <<"id">>, <<"total">> >>
        /\ inv[p].csv_columns = << <<"id">>, <<"amount">> >>
        /\ inv[p].sql = <<"SELECT_TABLES", "SELECT_COLUMNS">>

\* C2: a truncate invocation that found the table absent and completed has
\* executed exactly CREATE then COPY, and its load_mode is "truncate".
C2_TruncateAbsentIsCreateCopy ==
    \A p \in Procs :
        ( /\ inv[p].pc = "done"
          /\ inv[p].action = <<"truncate">>
          /\ ~inv[p].table_exists )
        => /\ Ops(inv[p].sql) = <<"CREATE", "COPY">>
           /\ inv[p].load_mode = "truncate"

\* C3: an invocation in which a statement or a check failed has issued no
\* commit, and the committed state of the warehouse is what it was when the
\* invocation started.
C3_FailureLeavesCommittedState ==
    \A p \in Procs :
        ( /\ inv[p].pc = "failed"
          /\ inv[p].err \in {"Sql", "SchemaMismatch", "UnknownAction", "Unpack"} )
        => /\ ~Issued(p, "COMMIT")
           /\ warehouse = inv[p].before

\* C4: an invocation that has ended holds no open warehouse connection.
C4_NoOpenConnectionAtExit ==
    \A p \in Procs : Terminal(p) => inv[p].conn # "open"

\* C5: a completed schema invocation has executed DROP, CREATE, COPY in that
\* order, reports load_mode "schema", and leaves the table existing with the
\* file's header columns as its column list, whatever the table was before.
C5_SchemaRecreatesTable ==
    \A p \in Procs :
        ( /\ inv[p].pc = "done"
          /\ inv[p].action = <<"schema">> )
        => /\ Ops(inv[p].sql) = <<"DROP", "CREATE", "COPY">>
           /\ inv[p].sql[Len(inv[p].sql)] = "COMMIT"
           /\ inv[p].load_mode = "schema"
           /\ inv[p].output.load_mode = "schema"
           /\ TargetNow(p).exists
           /\ TargetNow(p).columns = HeaderOf(p)

C5_Witness ==
    \E p \in Procs :
        /\ inv[p].pc = "done"
        /\ inv[p].action = <<"schema">>
        /\ TargetBefore(p).exists
        /\ TargetBefore(p).columns # HeaderOf(p)
        /\ TargetNow(p).columns = HeaderOf(p)

\* C6: when a schema invocation completes and the previous completed load was
\* a schema load of the same file, the table has the same column list and the
\* same number of rows as after that previous load.
C6_SchemaIdempotent ==
    \A p \in Procs :
        ( /\ inv[p].pc = "done"
          /\ inv[p].load_mode = "schema"
          /\ inv[p].prior_load.load_mode = "schema"
          /\ inv[p].prior_load.file = inv[p].file )
        => /\ TargetNow(p).columns = inv[p].prior_load.columns
           /\ RowCount(TargetNow(p).rows) = RowCount(inv[p].prior_load.rows)

C6_Witness ==
    \E p \in Procs :
        /\ inv[p].pc = "done"
        /\ inv[p].load_mode = "schema"
        /\ inv[p].prior_load.load_mode = "schema"
        /\ inv[p].prior_load.file = inv[p].file
        /\ RowCount(TargetNow(p).rows) = 2

\* C7: an invocation whose key has fewer than four segments has failed with
\* the malformed-key error and has made no object-store call, opened no
\* connection and issued no statement.
C7_ShortKeyFailsBeforeIO ==
    \A p \in Procs :
        ( /\ Running(p)
          /\ Len(Split(inv[p].s3_key, "/")) < 4 )
        => /\ inv[p].pc = "failed"
           /\ inv[p].err = "MalformedKey"
           /\ inv[p].io = <<>>
           /\ inv[p].conn = "none"
           /\ inv[p].sql = <<>>
           /\ txn[p] = NoTxn

C7_Witness ==
    \E p \in Procs :
        /\ inv[p].pc = "failed"
        /\ inv[p].err = "MalformedKey"
        /\ Len(Split(inv[p].s3_key, "/")) = 3

UnknownAction(p) ==
    /\ Running(p)
    /\ Len(Split(inv[p].s3_key, "/")) >= 4
    /\ Lower(Split(inv[p].s3_key, "/")[2]) \notin { <<"append">>, <<"truncate">>, <<"schema">> }

\* C8 as stated: an invocation with an unknown action whose external calls
\* all succeed ends with the unknown-action error.
C8_UnknownActionAlwaysThatError ==
    \A p \in Procs :
        (UnknownAction(p) /\ Terminal(p) /\ ~ExternalFailure(p))
        => (inv[p].pc = "failed" /\ inv[p].err = "UnknownAction")

\* C8, amended: an invocation with an unknown action never succeeds, executes
\* no DROP, CREATE, TRUNCATE or COPY and commits nothing, whatever the table
\* state; unless an external call fails, its error is the unknown-action
\* error when the file has a header line and the table segment has no ".",
\* the empty-file error when the file has no line, and the unpacking error of
\* the table name otherwise.
C8_UnknownActionFails ==
    \A p \in Procs :
        UnknownAction(p)
        => /\ inv[p].pc # "done"
           /\ Ops(inv[p].sql) = <<>>
           /\ ~Issued(p, "COMMIT")
           /\ warehouse = inv[p].before
           /\ (Terminal(p) /\ ~ExternalFailure(p)) =>
                 inv[p].err =
                    IF HeaderOf(p) = <<>> THEN "EmptyCsv"
                    ELSE IF Len(Split(inv[p].full_table_name, ".")) # 2 THEN "Unpack"
                    ELSE "UnknownAction"

C8_Witness ==
    \E p \in Procs :
        /\ UnknownAction(p)
        /\ inv[p].pc = "failed"
        /\ inv[p].err = "UnknownAction"
        /\ inv[p].table_exists
        /\ inv[p].sql = <<"SELECT_TABLES">>

\* C9: a completed append or truncate invocation that found the table existing
\* has issued neither DROP nor CREATE, passed the check with identical column
\* lists, and leaves the table's ordered column list as it was.
C9_ExistingTableKeepsColumns ==
    \A p \in Procs :
        ( /\ inv[p].pc = "done"
          /\ inv[p].action \in { <<"append">>, <<"truncate">> }
          /\ inv[p].table_exists )
        => /\ ~Issued(p, "DROP")
           /\ ~Issued(p, "CREATE")
           /\ inv[p].existing_columns = inv[p].csv_columns
           /\ TargetBefore(p).exists
           /\ TargetNow(p).exists
           /\ TargetNow(p).columns = TargetBefore(p).columns

C9_Witness ==
    \E p \in Procs :
        /\ inv[p].pc = "done"
        /\ inv[p].action = <<"truncate">>
        /\ inv[p].table_exists
        /\ TargetNow(p).columns = << <<"id">>, <<"amount">> >>

\* C10: a completed append invocation has executed exactly CREATE then COPY when
\* its probe found the table absent and exactly COPY when the table existed
\* with matching columns; its load_mode is "append" either way.
C10_AppendPlan ==
    \A p \in Procs :
        ( /\ inv[p].pc = "done"
          /\ inv[p].action = <<"append">> )
        => /\ inv[p].load_mode = "append"
           /\ inv[p].output.load_mode = "append"
           /\ ~inv[p].table_exists => Ops(inv[p].sql) = <<"CREATE", "COPY">>
           /\ inv[p].table_exists =>
                 /\ Ops(inv[p].sql) = <<"COPY">>
                 /\ inv[p].existing_columns = inv[p].csv_columns

\* Both cases, one after the other: a first load created the table, the next found it
C10_Witness ==
    \E p \in Procs :
        /\ inv[p].pc = "done"
        /\ inv[p].action = <<"append">>
        /\ inv[p].table_exists
        /\ Ops(inv[p].sql) = <<"COPY">>
        /\ inv[p].prior_load.load_mode = "append"
        /\ inv[p].prior_load.ops = <<"CREATE", "COPY">>

\* C11: a completed truncate invocation that found the table existing has
\* executed exactly TRUNCATE then COPY with matching columns, reports load_mode
\* "truncate", and leaves the table holding the rows of its file and no other;
\* after a truncate load of the same file the row count is the same again.
C11_TruncateReplacesRows ==
    \A p \in Procs :
        ( /\ inv[p].pc = "done"
          /\ inv[p].action = <<"truncate">>
          /\ inv[p].table_exists )
        => /\ Ops(inv[p].sql) = <<"TRUNCATE", "COPY">>
           /\ inv[p].existing_columns = inv[p].csv_columns
           /\ inv[p].load_mode = "truncate"
           /\ inv[p].output.load_mode = "truncate"
           /\ TargetNow(p).rows = <<inv[p].file>>
           /\ ( /\ inv[p].prior_load.load_mode = "truncate"
                /\ inv[p].prior_load.file = inv[p].file )
              => RowCount(TargetNow(p).rows) = RowCount(inv[p].prior_load.rows)

\* The same truncate load twice, the first over rows of an earlier load
C11_Witness ==
    \E p \in Procs :
        /\ inv[p].pc = "done"
        /\ inv[p].action = <<"truncate">>
        /\ inv[p].table_exists
        /\ inv[p].prior_load.load_mode = "truncate"
        /\ inv[p].prior_load.file = inv[p].file
        /\ inv[p].prior_load.ops = <<"TRUNCATE", "COPY">>
        /\ TargetBefore(p).rows # <<>>
        /\ RowCount(TargetNow(p).rows) = 2

\* C18: a completed append invocation that found the table existing leaves
\* every row committed before it in place and adds the rows of its file after
\* them; when it directly follows an append of the same file, the file's rows
\* are in the table once more than after that load.
C18_AppendKeepsRows ==
    \A p \in Procs :
        ( /\ inv[p].pc = "done"
          /\ inv[p].action = <<"append">>
          /\ inv[p].table_exists )
        => /\ TargetNow(p).rows = Append(TargetBefore(p).rows, inv[p].file)
           /\ RowCount(TargetNow(p).rows) =
                 RowCount(TargetBefore(p).rows) + DataRows(inv[p].file)
           /\ ( /\ inv[p].follows_load
                /\ inv[p].prior_load.load_mode = "append"
                /\ inv[p].prior_load.file = inv[p].file )
              => /\ TargetNow(p).rows = Append(inv[p].prior_load.rows, inv[p].file)
                 /\ RowCount(TargetNow(p).rows) =
                       RowCount(inv[p].prior_load.rows) + DataRows(inv[p].file)

\* The same append twice: the file's two rows are in the table at least twice
C18_Witness ==
    \E p \in Procs :
        /\ inv[p].pc = "done"
        /\ inv[p].action = <<"append">>
        /\ inv[p].table_exists
        /\ inv[p].file = "two_rows"
        /\ inv[p].follows_load
        /\ inv[p].prior_load.load_mode = "append"
        /\ inv[p].prior_load.file = inv[p].file
        /\ RowCount(TargetNow(p).rows) >= 4
        /\ RowCount(TargetNow(p).rows) > RowCount(inv[p].prior_load.rows)

\* C20: an invocation whose file has no line fails having opened no connection
\* and issued no statement; an invocation that has opened a connection holds
\* a header column list that is not empty.
C20_EmptyFileFailsBeforeConnect ==
    \A p \in Procs :
        /\ (Running(p) /\ Len(Split(inv[p].s3_key, "/")) >= 4 /\ SplitLines(Body(inv[p].file)) = <<>>)
           => /\ inv[p].pc # "done"
              /\ inv[p].conn = "none"
              /\ inv[p].sql = <<>>
              /\ txn[p] = NoTxn
              /\ Terminal(p) => inv[p].err \in {"EmptyCsv", "HeadObject", "GetObject"}
        /\ (inv[p].conn # "none" \/ inv[p].sql # <<>>)
           => /\ Len(inv[p].csv_columns) > 0
              /\ inv[p].csv_columns = HeaderOf(p)
              /\ SplitLines(Body(inv[p].file)) # <<>>

C20_Witness ==
    \E p \in Procs :
        /\ inv[p].pc = "failed"
        /\ inv[p].err = "EmptyCsv"
        /\ inv[p].file = "empty"
        /\ inv[p].io = <<"head_object", "get_object">>
        /\ inv[p].conn = "none"

\* C19 as stated: the returned record's table-existed field is the result of
\* the existence probe of the same invocation.
C19_OutcomeReportsProbe ==
    \A p \in Procs :
        inv[p].pc = "done"
        => inv[p].output.redshift_table_exists = inv[p].table_exists

NoSlash(text) == \A i \in 1..Len(text) : text[i] # "/"

\* C13: an invocation whose key has at least four segments does not fail with
\* the malformed-key error, and its routing values are the one decomposition
\* of the key as database/raw/table/file with no "/" in database, raw and
\* table: database and table as written, action the lower-cased raw, file the
\* whole remainder.  That decomposition is unique, so the values depend on
\* the key alone.
C13_RoutingFromKey ==
    \A p \in Procs :
        (Running(p) /\ Len(Split(inv[p].s3_key, "/")) >= 4)
        => /\ inv[p].err # "MalformedKey"
           /\ NoSlash(inv[p].database_name)
           /\ NoSlash(inv[p].table_name)
           /\ \E i, j \in 1..Len(inv[p].s3_key) :
                 LET raw == SubSeq(inv[p].s3_key, i, j)
                 IN  /\ NoSlash(raw)
                     /\ inv[p].action = Lower(raw)
                     /\ inv[p].s3_key =
                           inv[p].database_name \o <<"/">> \o raw \o <<"/">>
                              \o inv[p].table_name \o <<"/">> \o inv[p].file_name
           /\ inv[p].full_table_name = <<"public", ".">> \o inv[p].table_name

\* A completed invocation whose key has five segments
C13_Witness ==
    \E p \in Procs :
        /\ inv[p].pc = "done"
        /\ inv[p].file_name = <<"2024", "/", "file.csv">>
        /\ inv[p].action = <<"schema">>
        /\ inv[p].database_name = <<"sales">>
        /\ inv[p].table_name = <<"orders">>

StatementAt(p, stmt) == CHOOSE i \in 1..Len(inv[p].sql) : inv[p].sql[i] = stmt

\* C16: when invocations follow each other, an invocation is about to issue
\* CREATE TABLE only with the table absent from what its statements see, and
\* a CREATE TABLE it has issued comes after an existence query that found no
\* table or directly after a DROP TABLE IF EXISTS; this holds as well for an
\* invocation that repeats one that failed.
C16_CreateAfterProbeOrDrop ==
    \A p \in Procs :
        /\ inv[p].pc = "create"
           => /\ ~View(p)[TableOf(inv[p].full_table_name)].exists
              /\ inv[p].sql[1] = "SELECT_TABLES"
              /\ ~inv[p].table_exists \/ inv[p].sql[Len(inv[p].sql)] = "DROP"
        /\ Issued(p, "CREATE")
           => /\ inv[p].sql[1] = "SELECT_TABLES"
              /\ StatementAt(p, "CREATE") > 1
              /\ \/ ~inv[p].table_exists
                 \/ inv[p].sql[StatementAt(p, "CREATE") - 1] = "DROP"

\* A repeated schema invocation about to create a table that exists as committed
C16_Witness ==
    \E p \in Procs :
        /\ inv[p].pc = "create"
        /\ inv[p].redriven
        /\ inv[p].table_exists
        /\ TargetNow(p).exists

\* C14: every stored audit item has table_prefix <database>.<schema>.<table>,
\* with database and table the key's segments 0 and 2 and schema the schema
\* part of the loaded table's full name.
C14_TablePrefixNamesSchema ==
    \A item \in audit_store :
        LET key  == Split(item.file_key, "/")
            full == Split(item.table_name, ".")
        IN  item.table_prefix = key[1] \o <<".">> \o full[1] \o <<".">> \o key[3]

\* ---- the monitoring query ----

\* Attribute values carry their DynamoDB type: a number is <<"N", n>>, the
\* text isoformat() returns is <<"iso", t>>.
Number(n) == <<"N", n>>

\* int(text) of a query-string value; the texts that are decimal numerals
IsIntText(text) == Len(text) = 1 /\ \E n \in 0..(MaxInvocations + MaxInvocations) : ToString(n) = text[1]
int(text) == CHOOSE n \in 0..(MaxInvocations + MaxInvocations) : ToString(n) = text[1]

\* Attr(name).gte(value): values of different types never compare
Gte(attr, value) == attr[1] = value[1] /\ attr[2] >= value[2]

\* table.scan(FilterExpression=...): numbers come back as Decimal
Scan(store, table_name, bound) ==
    { [item EXCEPT !.file_size = <<"Decimal", item.file_size>>] :
        item \in { i \in store :
                     /\ i.table_name = table_name
                     /\ bound = <<>> \/ Gte(i.landed_timestamp, bound[1]) } }

decimal_to_native(items) ==
    { [item EXCEPT !.file_size = IF item.file_size[1] = "Decimal"
                                 THEN item.file_size[2]
                                 ELSE item.file_size] : item \in items }

\* The API handler; an absent query parameter is the empty text
api_lambda_handler(query_params, store) ==
    LET table_name       == query_params.table_name
        landed_timestamp == query_params.landed_timestamp
    IN  IF table_name = <<>>
        THEN [statusCode |-> 400, error |-> "table_name parameter is required", items |-> {}]
        ELSE IF landed_timestamp # <<>> /\ ~IsIntText(landed_timestamp)
        THEN [statusCode |-> 400, error |-> "timestamp must be an integer", items |-> {}]
        ELSE [statusCode |-> 200,
              error      |-> "none",
              items      |-> decimal_to_native(
                                Scan(store, table_name,
                                     IF landed_timestamp = <<>>
                                     THEN <<>>
                                     ELSE <<Number(int(landed_timestamp))>>)) ]

\* The time a stored landed_timestamp stands for
TimeOf(stamp) == stamp[2]

QueryTables == { <<"public", ".">> \o t : t \in TableNames }

\* C15: a query with table name T and lower bound L answers 200 with exactly
\* the stored audit items whose table_name is T and whose landed_timestamp is
\* at or after L.
C15_QueryReturnsMatching ==
    \A T \in QueryTables, L \in 0..(MaxInvocations + MaxInvocations) :
        LET resp == api_lambda_handler(
                        [table_name |-> T, landed_timestamp |-> <<ToString(L)>>],
                        audit_store)
        IN  /\ resp.statusCode = 200
            /\ resp.items = { item \in audit_store :
                                /\ item.table_name = T
                                /\ TimeOf(item.landed_timestamp) >= L }

\* ---- the column check over drawn column lists ----

MaxColumns == 2

ColumnNames == { <<"id">>, <<"ID">>, <<"amount">> }

ColumnLists == UNION { [1..n -> ColumnNames] : n \in 1..MaxColumns }

CompareKeys ==
    { <<"sales", "/", "append", "/", "orders", "/", "file.csv">>,
      <<"sales", "/", "Truncate", "/", "orders", "/", "file.csv">> }

\* An append or truncate invocation that found its table and is about to read
\* the table's columns; the header and the table's columns are drawn
InitCompare ==
    /\ \E columns \in { c \in ColumnLists : ValidColumns(c) } :
          warehouse = [t \in TableNames |->
                          [exists |-> TRUE, columns |-> columns, rows |-> <<>>]]
    /\ txn = [p \in Procs |-> NoTxn]
    /\ \E s3_key \in CompareKeys, csv_columns \in ColumnLists :
          LET s3_key_split == Split(s3_key, "/")
          IN  inv = [p \in Procs |->
                        IF p \in SeqProcs
                        THEN [ pc               |-> "getcols",
                               s3_key           |-> s3_key,
                               file             |-> "drawn",
                               from_path        |-> <<"s3://", "bucket", "/">> \o s3_key,
                               database_name    |-> s3_key_split[1],
                               action           |-> Lower(s3_key_split[2]),
                               table_name       |-> s3_key_split[3],
                               file_name        |-> FileNameOf(s3_key_split),
                               full_table_name  |-> <<"public", ".">> \o s3_key_split[3],
                               landed_timestamp |-> isoformat(0),
                               csv_columns      |-> csv_columns,
                               conn             |-> "open",
                               table_exists     |-> TRUE,
                               io               |-> <<"head_object", "get_object">>,
                               sql              |-> <<"SELECT_TABLES">>,
                               before           |-> warehouse ] @@ IdleInv
                        ELSE IdleInv]
    /\ started = 1
    /\ last_load = NoLoad
    /\ clock = 1
    /\ audit_store = {}

NextCompare == \E p \in SeqProcs : GetTableColumns(p)

SpecCompare == InitCompare /\ [][NextCompare]_vars

\* C12: once the table's columns have been read, the invocation has failed
\* with the mismatch error exactly when the header and the table's columns are
\* not of the same length with the same name at every position; otherwise it
\* goes on to its load.
C12_OrderedExactComparison ==
    \A p \in Procs :
        (Issued(p, "SELECT_COLUMNS") /\ inv[p].err # "Sql")
        => LET existing == TargetNow(p).columns
               header   == inv[p].csv_columns
               same     == /\ Len(existing) = Len(header)
                           /\ \A i \in 1..Len(existing) : existing[i] = header[i]
           IN  /\ inv[p].err = "SchemaMismatch" <=> ~same
               /\ same => inv[p].pc \in {"truncate", "copy"}
               /\ ~same => inv[p].pc = "failed"

\* The same two names in the other order are a mismatch
C12_Witness ==
    \E p \in Procs :
        /\ inv[p].err = "SchemaMismatch"
        /\ Len(inv[p].csv_columns) = 2
        /\ Len(inv[p].existing_columns) = 2
        /\ inv[p].csv_columns[1] = inv[p].existing_columns[2]
        /\ inv[p].csv_columns[2] = inv[p].existing_columns[1]

\* ---- two invocations in flight at once ----

ConcKeys ==
    { <<"sales", "/", "schema", "/", "orders", "/", "file.csv">>,
      <<"sales", "/", "append", "/", "orders", "/", "file.csv">> }

ConcFiles == {"two_rows", "other_cols"}

\* Each of the two invocations handles one event
StartOnce(p) ==
    /\ inv[p].pc = "idle"
    /\ Start(p, ConcKeys, ConcFiles)

NextConc ==
    \E p \in Procs :
        \/ StartOnce(p)
        \/ HeadObject(p)
        \/ GetCsvColumns(p)
        \/ Connect(p)
        \/ CheckTableExists(p)
        \/ DropTable(p)
        \/ CreateTable(p)
        \/ GetTableColumns(p)
        \/ CopyData(p)
        \/ CommitAndReturn(p)

SpecConc == Init /\ [][NextConc]_vars

\* The table as the COPY of invocation p wrote it
CopiedInto(p) == View(p)[TableOf(inv[p].full_table_name)]

\* C17: with two invocations in flight, an append that found its table has
\* issued COPY on the strength of its own column check alone (existence
\* query, column query, COPY, the columns read equal to its header), and the
\* table its COPY wrote has those columns unless a schema invocation
\* committed its own columns in between.
C17_CopyTrustsEarlierCheck ==
    \A p \in Procs :
        (inv[p].pc = "commit" /\ inv[p].action = <<"append">> /\ inv[p].table_exists)
        => /\ inv[p].sql = <<"SELECT_TABLES", "SELECT_COLUMNS", "COPY">>
           /\ inv[p].existing_columns = inv[p].csv_columns
           /\ \/ CopiedInto(p).columns = inv[p].existing_columns
              \/ \E q \in Procs \ {p} :
                    /\ inv[q].pc = "done"
                    /\ inv[q].action = <<"schema">>
                    /\ CopiedInto(p).columns = inv[q].csv_columns

\* An append whose COPY wrote a table with other columns than it validated
C17_Witness ==
    \E p \in Procs :
        /\ inv[p].pc = "commit"
        /\ inv[p].action = <<"append">>
        /\ inv[p].table_exists
        /\ CopiedInto(p).columns # inv[p].existing_columns

====
